---- MODULE Spec2Model ----
(***************************************************************************)
(* Presence, voice-room membership and call signalling of the chat server  *)
(* (src/unnamed/part_000, the Socket.IO section) and of the browser        *)
(* controller (src/script.js).                                             *)
(*                                                                         *)
(* Every connection handle is used for one socket lifetime: it connects    *)
(* once, and after its disconnect a reconnecting client gets a new handle. *)
(***************************************************************************)
EXTENDS Naturals, Sequences, FiniteSets, TLC

\* Connection handles (socket.id), in a fixed order used only to lay out a
\* broadcast as a sequence; the order between different recipients is not
\* observable.
SocketOrder == <<"a1", "b1", "c1">>
Sockets == {SocketOrder[i] : i \in 1..Len(SocketOrder)}

\* socket.userId, the identity the JWT middleware attaches to a connection.
\* User B holds two connections.
UserIds == {"A", "B"}
UserId(s) == IF s = "a1" THEN "A" ELSE "B"

\* Channel names a join or leave may carry.  "general" and "random" are the
\* text channels of script.js (`channels`), "lobby" and "music" are voice
\* channels.
RoomOrder == <<"general", "random", "lobby", "music">>
RoomNames == {RoomOrder[i] : i \in 1..Len(RoomOrder)}
VoiceChannels == {"lobby", "music"}
TextChannels == {"general", "random"}

CallTypes == {"audio", "video"}

NoSocket == "-"

VARIABLES
    live,       \* sockets currently connected to the namespace
    pc,         \* per socket: how far its connection / disconnect handler got
    users,      \* const users = new Map(): records in insertion order
    rooms,      \* const rooms = new Map(): channel name -> members in insertion order
    sioRooms,   \* socket.io rooms `voice-<name>`: channel name -> set of sockets
    out,        \* the events the step that ran last emitted to sockets, in order
    last,       \* the event the server handled in the last step, if it was its step
    cl,         \* per socket: the state of the browser controller behind it
    upq,        \* per socket: events the controller emitted, not yet handled
    inbox,      \* per socket: events emitted to it, not yet handled by it
    clicks,     \* how many clicks the users made so far
    calls       \* history: caller socket -> callee socket -> how far the call
                \* attempt between them got by the events the server handled

serverVars == <<live, pc, users, rooms, sioRooms, out, last>>
clientVars == <<cl, upq, inbox, clicks>>
vars == <<live, pc, users, rooms, sioRooms, out, last, cl, upq, inbox, clicks, calls>>

\* Clicks the users make in all.
MaxClicks == 4

\* A step may add events to a queue that holds fewer than this many.
MaxUplink == 1
MaxInbox == 1

----------------------------------------------------------------------------
\* Helpers

Range(f) == {f[i] : i \in DOMAIN f}

SetToSeq(order, S) == SelectSeq(order, LAMBDA x : x \in S)

RECURSIVE Remove(_, _)
Remove(seq, x) ==
    IF seq = <<>> THEN <<>>
    ELSE IF Head(seq) = x THEN Remove(Tail(seq), x)
    ELSE <<Head(seq)>> \o Remove(Tail(seq), x)

\* Array.prototype.push in place of Set.prototype.add.
M_SetAdd(seq, x) == Append(seq, x)

\* Set.prototype.add: insertion order, no effect when already present.
SetAdd(seq, x) == IF x \in Range(seq) THEN seq ELSE Append(seq, x)

\* A value of the users map, {...user, socketId}.
UserRec(s) == [id |-> UserId(s), socketId |-> s]
\* users.get(id) of a missing key.
Undefined == [id |-> "undefined", socketId |-> "undefined"]

\* Keys of the users map.
UserKeys == {users[i].socketId : i \in 1..Len(users)}

\* users.get(id)
UsersGet(s) ==
    IF s \in UserKeys
    THEN users[CHOOSE i \in 1..Len(users) : users[i].socketId = s]
    ELSE Undefined

\* users.delete(id)
UsersDelete(us, s) == SelectSeq(us, LAMBDA u : u.socketId # s)

\* Array.from(users.values()).find(u => u.id === to): the first match or none.
RECURSIVE Find(_, _)
Find(us, to) ==
    IF us = <<>> THEN Undefined
    ELSE IF Head(us).id = to THEN Head(us)
    ELSE Find(Tail(us), to)

\* rooms.get(name) as a sequence, empty when the map has no such key.
Members(name) == IF name \in DOMAIN rooms THEN rooms[name] ELSE <<>>

\* One emitted event.  Every event carries the same fields; the ones an event
\* does not use hold NoSocket / <<>>.
Msg(to, ev, from, uid, kind, list) ==
    [to |-> to, ev |-> ev, from |-> from, uid |-> uid, kind |-> kind, list |-> list]

\* The same event to every socket of a set.
ToAll(S, ev, from, uid, kind, list) ==
    LET order == SetToSeq(SocketOrder, S)
    IN  [i \in 1..Len(order) |-> Msg(order[i], ev, from, uid, kind, list)]

\* The event a handler ran for: its name, the socket it came from, the room or
\* target it names, and for a join or leave whether the socket was a member
\* of that room's set when the handler started.
EventM(ev, s, arg, member) == [ev |-> ev, sock |-> s, arg |-> arg, member |-> member]
Event(ev, s, arg) == EventM(ev, s, arg, FALSE)

\* The room `voice-<name>` a target string names, "none" for any other string.
TargetRoom(to) ==
    CASE to = "voice-general" -> "general"
      [] to = "voice-random" -> "random"
      [] to = "voice-lobby" -> "lobby"
      [] to = "voice-music" -> "music"
      [] OTHER -> "none"
RoomTargets == {"voice-general", "voice-random", "voice-lobby", "voice-music"}

\* The connection handler reaches its end and registers the socket's
\* listeners.  On a socket that closed meanwhile no event fires any more.
Registered(s) == IF s \in live THEN "ready" ELSE "done"

\* A socket whose handlers are registered and which is still connected.
Ready(s) == s \in live /\ pc[s] = "ready"

----------------------------------------------------------------------------
\* The browser controller (script.js).  A controller lives as long as its
\* socket: a logout or a closed tab is the socket's disconnect.

NoCall == [to |-> NoSocket, type |-> NoSocket]
NoCaller == [caller |-> NoSocket, type |-> NoSocket]

\* The globals of script.js after load.
ClientInit ==
    [inCall |-> FALSE,
     localStream |-> FALSE,           \* a stream is held
     orphan |-> FALSE,                \* history: a held stream was replaced, its tracks live
     callUI |-> FALSE,                \* #callInterface is shown
     currentChannel |-> "general",
     peerConnections |-> <<>>,        \* remote socket id -> state of the link
     pendJoin |-> "none",             \* joinVoiceChannel awaiting initializeMedia
     pendCall |-> NoCall,             \* initiateCall awaiting getUserMedia
     pendAccept |-> NoCaller,         \* acceptCall awaiting getUserMedia
     incoming |-> NoCaller,           \* #incomingCall is shown for this caller
     timers |-> <<>>,                 \* pending 30 s ring timers, oldest first
     applied |-> {},                  \* links that took an ICE candidate of the remote
     restarts |-> <<>>,               \* remote socket id -> restartIce() calls on its link
     currentCallDetails |-> "none"]   \* "none", "initiator" or the callee's peerId

\* A timer set by showIncomingCall(caller, type): the caller of its closure.
\* `answered` is history and steers nothing: the user clicked accept or reject
\* on the dialog of the timer's call.
Timer(caller) == [caller |-> caller, answered |-> FALSE]

\* The user answered the call the dialog shows, which is the newest timer's.
Answered(timers) ==
    IF timers = <<>> THEN timers ELSE [timers EXCEPT ![Len(timers)].answered = TRUE]

\* An event a controller emits.
Up(ev, arg, uid, kind) == [ev |-> ev, arg |-> arg, uid |-> uid, kind |-> kind]

\* What a piece of controller code yields: the new globals and the events it
\* emitted, in order.
Result(c, emit) == [st |-> c, emit |-> emit]

\* A controller that replaces the link it has by a new one.
M_CreatePeerConnection(c, remote, isInitiator) ==
    [c EXCEPT !.peerConnections =
        (remote :> IF isInitiator THEN "creating-offer" ELSE "new") @@ @]

\* createPeerConnection(remoteSocketId, isInitiator).  An initiator link has
\* its createOffer chain pending.
CreatePeerConnection(c, remote, isInitiator) ==
    IF remote \in DOMAIN c.peerConnections THEN c
    ELSE [c EXCEPT !.peerConnections =
             @ @@ (remote :> IF isInitiator THEN "creating-offer" ELSE "new")]

\* peerConnections[id].close(); delete peerConnections[id]
DeletePeer(c, remote) ==
    [c EXCEPT !.peerConnections = [t \in DOMAIN @ \ {remote} |-> @[t]],
              !.applied = @ \ {remote},
              !.restarts = [t \in DOMAIN @ \ {remote} |-> @[t]]]

\* users.forEach(user => createPeerConnection(user.socketId, false)); an
\* undefined entry throws and ends the loop.
RECURSIVE CreateAll(_, _)
CreateAll(c, list) ==
    IF list = <<>> THEN c
    ELSE IF Head(list) = Undefined THEN c
    ELSE CreateAll(CreatePeerConnection(c, Head(list).socketId, FALSE), Tail(list))

\* leaveVoiceChannel(force)
LeaveVoiceChannel(c, force) ==
    IF ~c.inCall THEN Result(c, <<>>)
    ELSE IF force
    THEN Result([c EXCEPT !.inCall = FALSE, !.localStream = FALSE,
                          !.peerConnections = <<>>, !.applied = {},
                          !.restarts = <<>>, !.callUI = FALSE],
                <<Up("leave-voice-channel", c.currentChannel, NoSocket, NoSocket)>>)
    ELSE Result([c EXCEPT !.callUI = FALSE], <<>>)

\* The states of a link whose setRemoteDescription was called: an
\* addIceCandidate runs behind it.  On any other link addIceCandidate rejects
\* and the candidate is gone; without a link the listener skips it.
RemoteDescribed == {"creating-answer", "stable"}

\* The socket.on(...) listeners of connectToSocketIO, applied to one event.
\* An offer is applied to a link in any state but have-local-offer, where the
\* browser either rolls the local offer back or throws.
OnEvent(c, m, rollback) ==
    CASE m.ev = "user-joined-voice" ->
            Result(CreatePeerConnection(c, m.from, TRUE), <<>>)
      [] m.ev = "existing-voice-users" ->
            Result(CreateAll(c, m.list), <<>>)
      [] m.ev = "user-left-voice" ->
            Result(DeletePeer(c, m.from), <<>>)
      [] m.ev = "offer" ->
            LET d == CreatePeerConnection(c, m.from, FALSE)
            IN  Result(IF d.peerConnections[m.from] = "have-local-offer" /\ ~rollback
                       THEN d
                       ELSE [d EXCEPT !.peerConnections[m.from] = "creating-answer"],
                       <<>>)
      [] m.ev = "answer" ->
            Result(IF m.from \in DOMAIN c.peerConnections
                      /\ c.peerConnections[m.from] = "have-local-offer"
                   THEN [c EXCEPT !.peerConnections[m.from] = "stable"]
                   ELSE c, <<>>)
      [] m.ev = "ice-candidate" ->
            Result(IF m.from \in DOMAIN c.peerConnections
                      /\ c.peerConnections[m.from] \in RemoteDescribed
                   THEN [c EXCEPT !.applied = @ \cup {m.from}]
                   ELSE c, <<>>)
      [] m.ev = "incoming-call" ->
            Result([c EXCEPT !.incoming = [caller |-> m.from, type |-> m.kind],
                             !.timers = Append(@, Timer(m.from))], <<>>)
      [] m.ev = "call-accepted" ->
            Result(CreatePeerConnection(c, m.from, TRUE), <<>>)
      [] m.ev = "call-rejected" ->
            Result([c EXCEPT !.callUI = FALSE, !.localStream = FALSE,
                             !.inCall = FALSE], <<>>)
      [] m.ev = "call-ended" ->
            LET d == DeletePeer(c, m.from)
            IN  IF DOMAIN d.peerConnections = {}
                THEN LeaveVoiceChannel(d, TRUE)
                ELSE Result(d, <<>>)
      [] OTHER -> Result(c, <<>>)

\* The events script.js registers a listener for.
Listened ==
    {"user-joined-voice", "existing-voice-users", "user-left-voice", "offer",
     "answer", "ice-candidate", "incoming-call", "call-accepted",
     "call-rejected", "call-ended"}

\* A transport that hands the newest events to the listeners first.
M_Route(ib, batch) ==
    [t \in Sockets |->
        SelectSeq(batch, LAMBDA m : m.to = t /\ m.ev \in Listened) \o ib[t]]

\* The emitted events reach the inboxes of their sockets; an event without a
\* listener is discarded on arrival.
Route(ib, batch) ==
    [t \in Sockets |->
        ib[t] \o SelectSeq(batch, LAMBDA m : m.to = t /\ m.ev \in Listened)]

\* A piece of controller code runs on socket s.
Controller(s, r) ==
    /\ s \in live
    /\ cl' = [cl EXCEPT ![s] = r.st]
    /\ upq' = [upq EXCEPT ![s] = @ \o r.emit]
    /\ r.emit = <<>> \/ Len(upq[s]) < MaxUplink
    /\ out' = <<>>
    /\ last' = Event("controller", NoSocket, NoSocket)
    /\ UNCHANGED <<live, pc, users, rooms, sioRooms, inbox, calls>>

\* A callback of the controller runs.
ClientStep(s, r) == Controller(s, r) /\ UNCHANGED clicks

\* A click handler of the controller runs.
Click(s, r) ==
    /\ clicks < MaxClicks
    /\ clicks' = clicks + 1
    /\ Controller(s, r)

\* The sockets event m makes its listener call createPeerConnection for.
Requested(m) ==
    CASE m.ev \in {"user-joined-voice", "call-accepted", "offer"} -> {m.from}
      [] m.ev = "existing-voice-users" ->
            {m.list[i].socketId : i \in {j \in DOMAIN m.list : m.list[j] # Undefined}}
      [] OTHER -> {}

\* A listener of the controller handles the next event sent to it.  `last`
\* is history: the event, when it asked for a link to a socket the controller
\* had a link to.
Receive(s) ==
    /\ inbox[s] # <<>>
    /\ inbox' = [inbox EXCEPT ![s] = Tail(@)]
    /\ \E rollback \in BOOLEAN :
          LET r == OnEvent(cl[s], Head(inbox[s]), rollback)
          IN  /\ s \in live
              /\ cl' = [cl EXCEPT ![s] = r.st]
              /\ upq' = [upq EXCEPT ![s] = @ \o r.emit]
              /\ r.emit = <<>> \/ Len(upq[s]) < MaxUplink
    /\ out' = <<>>
    /\ last' = IF Requested(Head(inbox[s])) \cap DOMAIN cl[s].peerConnections # {}
                THEN EventM("controller", s, Head(inbox[s]).ev, TRUE)
                ELSE Event("controller", NoSocket, NoSocket)
    /\ UNCHANGED <<live, pc, users, rooms, sioRooms, clicks, calls>>

\* The createOffer chain of an initiator link ends: the offer is sent.
SendOffer(s, t) ==
    /\ t \in DOMAIN cl[s].peerConnections
    /\ cl[s].peerConnections[t] = "creating-offer"
    /\ ClientStep(s, Result([cl[s] EXCEPT !.peerConnections[t] = "have-local-offer"],
                            <<Up("offer", t, NoSocket, NoSocket)>>))

\* An offer listener that describes the link and emits no answer.
M_SendAnswer(s, t) ==
    /\ t \in DOMAIN cl[s].peerConnections
    /\ cl[s].peerConnections[t] = "creating-answer"
    /\ ClientStep(s, Result([cl[s] EXCEPT !.peerConnections[t] = "stable"], <<>>))

\* The offer listener's awaits end: the answer is sent.
SendAnswer(s, t) ==
    /\ t \in DOMAIN cl[s].peerConnections
    /\ cl[s].peerConnections[t] = "creating-answer"
    /\ ClientStep(s, Result([cl[s] EXCEPT !.peerConnections[t] = "stable"],
                            <<Up("answer", t, NoSocket, NoSocket)>>))

\* How often one link reports a failed ICE connection.
MaxRestarts == 2

\* pc.restartIce() calls made on the link to t.
Restarts(c, t) == IF t \in DOMAIN c.restarts THEN c.restarts[t] ELSE 0

\* pc.oniceconnectionstatechange of the link of s to t with
\* iceConnectionState 'failed': pc.restartIce().
IceFailed(s, t) ==
    /\ t \in DOMAIN cl[s].peerConnections
    /\ cl[s].peerConnections[t] = "stable"
    /\ Restarts(cl[s], t) < MaxRestarts
    /\ ClientStep(s, Result([cl[s] EXCEPT !.restarts =
                                (t :> Restarts(cl[s], t) + 1) @@ @], <<>>))

\* localStream = await getUserMedia(...): the stream held before, if any, is
\* dropped without a stop of its tracks.
Acquire(c) == [c EXCEPT !.localStream = TRUE, !.orphan = @ \/ c.localStream]

\* A click on a text channel: switchChannel.
SwitchChannel(s, ch) ==
    /\ ch # cl[s].currentChannel
    /\ Click(s, Result([cl[s] EXCEPT !.currentChannel = ch], <<>>))

\* A click on a voice channel: joinVoiceChannel up to its await.  One
\* initializeMedia is awaited at a time.
ClickVoice(s, ch) ==
    /\ cl[s].inCall \/ cl[s].pendJoin = "none"
    /\ Click(s, IF cl[s].inCall
                     THEN Result([cl[s] EXCEPT !.callUI = TRUE], <<>>)
                     ELSE Result([cl[s] EXCEPT !.inCall = TRUE, !.callUI = TRUE,
                                              !.pendJoin = ch], <<>>))

\* initializeMedia resolved: the join is emitted.
MediaOkJoin(s) ==
    /\ cl[s].pendJoin # "none"
    /\ ClientStep(s, Result([Acquire(cl[s]) EXCEPT !.pendJoin = "none"],
                            <<Up("join-voice-channel", cl[s].pendJoin, UserId(s), NoSocket)>>))

\* initializeMedia threw: the catch calls leaveVoiceChannel(true).
MediaFailJoin(s) ==
    /\ cl[s].pendJoin # "none"
    /\ ClientStep(s, LeaveVoiceChannel([cl[s] EXCEPT !.pendJoin = "none"], TRUE))

\* A click on #closeCallBtn: end-call to every peer when a call was ever
\* started or accepted, then leaveVoiceChannel(true).
CloseCall(s) ==
    /\ cl[s].callUI
    /\ LET ends == IF cl[s].currentCallDetails = "none" THEN <<>>
                   ELSE LET order == SetToSeq(SocketOrder, DOMAIN cl[s].peerConnections)
                        IN  [i \in 1..Len(order) |-> Up("end-call", order[i], NoSocket, NoSocket)]
           r == LeaveVoiceChannel(cl[s], TRUE)
       IN  Click(s, Result(r.st, ends \o r.emit))

\* A click on a friend's call button: initiateCall up to its await.
ClickCall(s, friendId, type) ==
    /\ cl[s].pendCall = NoCall
    /\ Click(s, Result([cl[s] EXCEPT !.pendCall = [to |-> friendId, type |-> type]], <<>>))

\* getUserMedia of initiateCall resolved.
MediaOkCall(s) ==
    /\ cl[s].pendCall # NoCall
    /\ ClientStep(s, Result([Acquire(cl[s]) EXCEPT !.callUI = TRUE,
                                         !.currentCallDetails = "initiator",
                                         !.inCall = TRUE, !.pendCall = NoCall],
                            <<Up("initiate-call", cl[s].pendCall.to, UserId(s),
                                 cl[s].pendCall.type)>>))

\* getUserMedia of initiateCall threw: the catch only alerts.
MediaFailCall(s) ==
    /\ cl[s].pendCall # NoCall
    /\ ClientStep(s, Result([cl[s] EXCEPT !.pendCall = NoCall], <<>>))

\* A click on #acceptCallBtn: the dialog hides, acceptCall up to its await.
ClickAccept(s) ==
    /\ cl[s].incoming # NoCaller
    /\ cl[s].pendAccept = NoCaller
    /\ Click(s, Result([cl[s] EXCEPT !.incoming = NoCaller,
                                         !.timers = Answered(@),
                                         !.pendAccept = cl[s].incoming], <<>>))

\* getUserMedia of acceptCall resolved.
MediaOkAccept(s) ==
    /\ cl[s].pendAccept # NoCaller
    /\ LET caller == cl[s].pendAccept.caller
       IN  ClientStep(s, Result(
              CreatePeerConnection(
                 [Acquire(cl[s]) EXCEPT !.callUI = TRUE,
                               !.currentCallDetails = caller,
                               !.inCall = TRUE, !.pendAccept = NoCaller],
                 caller, FALSE),
              <<Up("accept-call", caller, UserId(s), NoSocket)>>))

\* getUserMedia of acceptCall threw: the catch only alerts.
MediaFailAccept(s) ==
    /\ cl[s].pendAccept # NoCaller
    /\ ClientStep(s, Result([cl[s] EXCEPT !.pendAccept = NoCaller], <<>>))

\* A click on #rejectCallBtn: the dialog hides, rejectCall(caller).
ClickReject(s) ==
    /\ cl[s].incoming # NoCaller
    /\ Click(s, Result([cl[s] EXCEPT !.incoming = NoCaller, !.timers = Answered(@)],
                            <<Up("reject-call", cl[s].incoming.caller, NoSocket, NoSocket)>>))

\* The oldest 30 s timer set by showIncomingCall fires (the timers have one
\* delay, so they fire in the order they were set): when the dialog is shown
\* it hides and rejectCall(caller) runs for the timer's own caller.
RingTimeout(s) ==
    /\ cl[s].timers # <<>>
    /\ LET caller == Head(cl[s].timers).caller
       IN  ClientStep(s, IF cl[s].incoming # NoCaller
                         THEN Result([cl[s] EXCEPT !.timers = Tail(@),
                                                  !.incoming = NoCaller],
                                     <<Up("reject-call", caller, NoSocket, NoSocket)>>)
                         ELSE Result([cl[s] EXCEPT !.timers = Tail(@)], <<>>))

----------------------------------------------------------------------------
\* io.on('connection'), socket.on('disconnect')

Init ==
    /\ live = {}
    /\ pc = [s \in Sockets |-> "none"]
    /\ users = <<>>
    /\ rooms = << >>
    /\ sioRooms = [r \in RoomNames |-> {}]
    /\ out = <<>>
    /\ last = Event("init", NoSocket, NoSocket)
    /\ cl = [s \in Sockets |-> ClientInit]
    /\ upq = [s \in Sockets |-> <<>>]
    /\ inbox = [s \in Sockets |-> <<>>]
    /\ clicks = 0
    /\ calls = [x \in Sockets |-> [y \in Sockets |-> "none"]]

\* A socket passes the token middleware and the connection handler starts:
\* it awaits userDB.findById.
Connect(s) ==
    /\ pc[s] = "none"
    /\ live' = live \cup {s}
    /\ pc' = [pc EXCEPT ![s] = "lookup"]
    /\ out' = <<>>
    /\ last' = Event("connection", s, NoSocket)
    /\ UNCHANGED <<users, rooms, sioRooms>>

\* userDB.findById resolved: users.set, then await userDB.updateStatus.
LookupOk(s) ==
    /\ pc[s] = "lookup"
    /\ users' = Append(users, UserRec(s))
    /\ pc' = [pc EXCEPT ![s] = "status"]
    /\ out' = <<>>
    /\ last' = Event("lookup-ok", s, NoSocket)
    /\ UNCHANGED <<live, rooms, sioRooms>>

\* userDB.findById rejected: the catch logs, the handlers are registered.
LookupFail(s) ==
    /\ pc[s] = "lookup"
    /\ pc' = [pc EXCEPT ![s] = Registered(s)]
    /\ out' = <<>>
    /\ last' = Event("lookup-fail", s, NoSocket)
    /\ UNCHANGED <<live, users, rooms, sioRooms>>

\* userDB.updateStatus resolved: io.emit('user-list-update', ...), then the
\* handlers are registered.
StatusOk(s) ==
    /\ pc[s] = "status"
    /\ pc' = [pc EXCEPT ![s] = Registered(s)]
    /\ out' = ToAll(live, "user-list-update", NoSocket, NoSocket, NoSocket, users)
    /\ last' = Event("status-ok", s, NoSocket)
    /\ UNCHANGED <<live, users, rooms, sioRooms>>

\* userDB.updateStatus rejected: the catch skips the broadcast.
StatusFail(s) ==
    /\ pc[s] = "status"
    /\ pc' = [pc EXCEPT ![s] = Registered(s)]
    /\ out' = <<>>
    /\ last' = Event("status-fail", s, NoSocket)
    /\ UNCHANGED <<live, users, rooms, sioRooms>>

\* The socket closes.  socket.io leaves all its rooms, then emits
\* 'disconnect'.  The listener exists only once the connection handler got
\* past its awaits; it reads users.get(socket.id) and, when that is set,
\* awaits userDB.updateStatus before it cleans up.
Disconnect(s) ==
    /\ s \in live
    /\ pc[s] \in {"lookup", "status", "ready"}
    /\ live' = live \ {s}
    /\ sioRooms' = [r \in RoomNames |-> sioRooms[r] \ {s}]
    /\ pc' = [pc EXCEPT ![s] =
                IF pc[s] = "ready"
                THEN (IF s \in UserKeys THEN "closing" ELSE "done")
                ELSE @]
    /\ out' = <<>>
    /\ last' = Event("disconnect", s, NoSocket)
    /\ UNCHANGED <<users, rooms>>

\* rooms.forEach of the disconnect handler: the rooms the socket is in.
RoomsOf(s) == {r \in DOMAIN rooms : s \in Range(rooms[r])}

RECURSIVE LeftVoice(_, _)
LeftVoice(order, s) ==
    IF order = <<>> THEN <<>>
    ELSE (IF Head(order) \in RoomsOf(s)
          THEN ToAll(sioRooms[Head(order)], "user-left-voice", s, NoSocket, NoSocket, <<>>)
          ELSE <<>>) \o LeftVoice(Tail(order), s)

\* The disconnect handler after its await (updateStatus resolved or rejected,
\* the catch only logs): leave every room, users.delete, broadcast the list.
DisconnectCleanup(s) ==
    /\ pc[s] = "closing"
    /\ pc' = [pc EXCEPT ![s] = "done"]
    /\ rooms' = [r \in DOMAIN rooms |-> Remove(rooms[r], s)]
    /\ users' = UsersDelete(users, s)
    /\ out' = LeftVoice(RoomOrder, s)
              \o ToAll(live, "user-list-update", NoSocket, NoSocket, NoSocket, users')
    /\ last' = Event("disconnect-cleanup", s, NoSocket)
    /\ UNCHANGED <<live, sioRooms>>

----------------------------------------------------------------------------
\* Voice rooms

\* socket.on('join-voice-channel', {channelName, userId})
OnJoin(s, channelName, userId) ==
    /\ sioRooms' = [sioRooms EXCEPT ![channelName] = @ \cup {s}]
    /\ rooms' = [r \in DOMAIN rooms \cup {channelName} |->
                    IF r = channelName THEN SetAdd(Members(r), s) ELSE rooms[r]]
    /\ out' = ToAll(sioRooms[channelName] \ {s}, "user-joined-voice", s, userId, NoSocket, <<>>)
              \o <<Msg(s, "existing-voice-users", NoSocket, NoSocket, NoSocket,
                       LET others == SelectSeq(rooms'[channelName], LAMBDA id : id # s)
                       IN  [i \in 1..Len(others) |-> UsersGet(others[i])])>>
    /\ last' = EventM("join-voice-channel", s, channelName, s \in Range(Members(channelName)))
    /\ UNCHANGED <<live, pc, users>>

\* A leave that deletes the room's entry once its member set is empty.
M_OnLeave(s, channelName) ==
    /\ sioRooms' = [sioRooms EXCEPT ![channelName] = @ \ {s}]
    /\ IF channelName \in DOMAIN rooms
       THEN /\ rooms' = [r \in {q \in DOMAIN rooms :
                                   q # channelName \/ Remove(rooms[q], s) # <<>>} |->
                            IF r = channelName THEN Remove(rooms[r], s) ELSE rooms[r]]
            /\ out' = ToAll(sioRooms'[channelName] \ {s}, "user-left-voice", s,
                            NoSocket, NoSocket, <<>>)
       ELSE /\ rooms' = rooms
            /\ out' = <<>>
    /\ last' = EventM("leave-voice-channel", s, channelName, s \in Range(Members(channelName)))
    /\ UNCHANGED <<live, pc, users>>

\* socket.on('leave-voice-channel', channelName)
OnLeave(s, channelName) ==
    /\ sioRooms' = [sioRooms EXCEPT ![channelName] = @ \ {s}]
    /\ IF channelName \in DOMAIN rooms
       THEN /\ rooms' = [rooms EXCEPT ![channelName] = Remove(@, s)]
            /\ out' = ToAll(sioRooms'[channelName] \ {s}, "user-left-voice", s,
                            NoSocket, NoSocket, <<>>)
       ELSE /\ rooms' = rooms
            /\ out' = <<>>
    /\ last' = EventM("leave-voice-channel", s, channelName, s \in Range(Members(channelName)))
    /\ UNCHANGED <<live, pc, users>>

----------------------------------------------------------------------------
\* Calls

\* io.to(to): the sockets a target string reaches, a socket id being the room
\* of that one socket.
Reach(to) ==
    IF to \in Sockets THEN {to} \cap live
    ELSE IF TargetRoom(to) \in RoomNames THEN sioRooms[TargetRoom(to)]
    ELSE {}


\* An initiate-call that stays silent when the callee is not in the registry.
M_OnInitiateCall(s, to, type, fromId) ==
    /\ LET receiverSocket == Find(users, to)
       IN  out' = IF receiverSocket # Undefined
                  THEN ToAll(Reach(receiverSocket.socketId), "incoming-call", s, fromId, type, <<>>)
                  ELSE <<>>
    /\ last' = Event("initiate-call", s, to)
    /\ UNCHANGED <<live, pc, users, rooms, sioRooms>>

\* socket.on('initiate-call', {to, type, from})
OnInitiateCall(s, to, type, fromId) ==
    /\ LET receiverSocket == Find(users, to)
       IN  out' = IF receiverSocket # Undefined
                  THEN ToAll(Reach(receiverSocket.socketId), "incoming-call", s, fromId, type, <<>>)
                  ELSE <<Msg(s, "call-rejected", NoSocket, NoSocket, NoSocket, <<>>)>>
    /\ last' = Event("initiate-call", s, to)
    /\ UNCHANGED <<live, pc, users, rooms, sioRooms>>

\* socket.on('accept-call', {to, from})
OnAcceptCall(s, to, fromId) ==
    /\ out' = ToAll(Reach(to), "call-accepted", s, fromId, NoSocket, <<>>)
    /\ last' = Event("accept-call", s, to)
    /\ UNCHANGED <<live, pc, users, rooms, sioRooms>>

\* socket.on('reject-call', {to})
OnRejectCall(s, to) ==
    /\ out' = ToAll(Reach(to), "call-rejected", s, NoSocket, NoSocket, <<>>)
    /\ last' = Event("reject-call", s, to)
    /\ UNCHANGED <<live, pc, users, rooms, sioRooms>>

\* socket.on('end-call', {to})
OnEndCall(s, to) ==
    /\ out' = ToAll(Reach(to), "call-ended", s, NoSocket, NoSocket, <<>>)
    /\ last' = Event("end-call", s, to)
    /\ UNCHANGED <<live, pc, users, rooms, sioRooms>>

----------------------------------------------------------------------------
\* WebRTC signalling: socket.on('offer' | 'answer' | 'ice-candidate')
\* socket.to(data.to) leaves the sender out.

RelayKinds == {"offer", "answer", "ice-candidate"}

\* `payload` is data.offer, data.answer or data.candidate, passed on as it came.
OnRelay(kind, s, to, payload) ==
    /\ out' = ToAll(Reach(to) \ {s}, kind, s, NoSocket, payload, <<>>)
    /\ last' = Event(kind, s, to)
    /\ UNCHANGED <<live, pc, users, rooms, sioRooms>>

----------------------------------------------------------------------------
\* History of the call attempts.  The server keeps no record of a call; this
\* is what the events it handled amount to, for each caller socket x and
\* callee socket y: "none", "ringing" once incoming-call from x was emitted to
\* y, "accepted" / "rejected" once it handled y's accept-call / reject-call
\* naming x while ringing, "ended" once it handled an end-call of either
\* naming the other while accepted.  A second initiate-call while the attempt
\* is ringing or accepted makes two attempts that no event tells apart:
\* "many", which no later event changes.  The history is kept where the
\* properties read it: in the specifications with controllers and in SpecRaw.

Calling(cs, x, y) ==
    IF cs[x][y] \in {"ringing", "accepted", "many"} THEN "many" ELSE "ringing"

Noted(s, m, batch) ==
    CASE m.ev = "initiate-call" ->
            [x \in Sockets |-> [y \in Sockets |->
                IF x = s /\ \E i \in DOMAIN batch :
                               batch[i].ev = "incoming-call" /\ batch[i].to = y
                THEN Calling(calls, x, y) ELSE calls[x][y]]]
      [] m.ev = "accept-call" ->
            [x \in Sockets |-> [y \in Sockets |->
                IF x = m.arg /\ y = s /\ calls[x][y] = "ringing"
                THEN "accepted" ELSE calls[x][y]]]
      [] m.ev = "reject-call" ->
            [x \in Sockets |-> [y \in Sockets |->
                IF x = m.arg /\ y = s /\ calls[x][y] = "ringing"
                THEN "rejected" ELSE calls[x][y]]]
      [] m.ev = "end-call" ->
            [x \in Sockets |-> [y \in Sockets |->
                IF {x, y} = {m.arg, s} /\ x # y /\ calls[x][y] = "accepted"
                THEN "ended" ELSE calls[x][y]]]
      [] OTHER -> calls

----------------------------------------------------------------------------
\* The coordinator alone: every connected socket whose handlers are
\* registered may send any event with any payload.

Join(s, channelName, userId) ==
    Ready(s) /\ OnJoin(s, channelName, userId) /\ UNCHANGED <<clientVars, calls>>
Leave(s, channelName) ==
    Ready(s) /\ OnLeave(s, channelName) /\ UNCHANGED <<clientVars, calls>>
InitiateCall(s, to, type, fromId) ==
    Ready(s) /\ OnInitiateCall(s, to, type, fromId) /\ UNCHANGED <<clientVars, calls>>

\* Connections come and go.
Lifecycle ==
    \/ \E s \in Sockets : Connect(s) /\ UNCHANGED <<clientVars, calls>>
    \/ \E s \in Sockets : LookupOk(s) /\ UNCHANGED <<clientVars, calls>>
    \/ \E s \in Sockets : LookupFail(s) /\ UNCHANGED <<clientVars, calls>>
    \/ \E s \in Sockets : StatusOk(s) /\ UNCHANGED <<clientVars, calls>>
    \/ \E s \in Sockets : StatusFail(s) /\ UNCHANGED <<clientVars, calls>>
    \/ \E s \in Sockets : Disconnect(s) /\ UNCHANGED <<clientVars, calls>>
    \/ \E s \in Sockets : DisconnectCleanup(s) /\ UNCHANGED <<clientVars, calls>>

\* Registry and voice rooms.
Next ==
    \/ Lifecycle
    \/ \E s \in Sockets, r \in VoiceChannels : Join(s, r, UserId(s))
    \/ \E s \in Sockets, r \in VoiceChannels : Leave(s, r)

Spec == Init /\ [][Next]_vars

\* Registry and calls, with one voice room in use.
NextCall ==
    \/ Lifecycle
    \/ \E s \in Sockets : Join(s, "lobby", UserId(s))
    \/ \E s \in Sockets, to \in UserIds, t \in CallTypes :
          InitiateCall(s, to, t, UserId(s))

SpecCall == Init /\ [][NextCall]_vars

\* Registry and call signalling, the history kept: every registered socket
\* may place a call to the other identity and may send accept-call,
\* reject-call and end-call naming any socket.
Dial(s, to, type) ==
    /\ Ready(s)
    /\ OnInitiateCall(s, to, type, UserId(s))
    /\ calls' = Noted(s, Up("initiate-call", to, UserId(s), type), out')
    /\ UNCHANGED clientVars
AcceptCall(s, to) ==
    /\ Ready(s)
    /\ OnAcceptCall(s, to, UserId(s))
    /\ calls' = Noted(s, Up("accept-call", to, UserId(s), NoSocket), out')
    /\ UNCHANGED clientVars
RejectCall(s, to) ==
    /\ Ready(s)
    /\ OnRejectCall(s, to)
    /\ calls' = Noted(s, Up("reject-call", to, NoSocket, NoSocket), out')
    /\ UNCHANGED clientVars
EndCall(s, to) ==
    /\ Ready(s)
    /\ OnEndCall(s, to)
    /\ calls' = Noted(s, Up("end-call", to, NoSocket, NoSocket), out')
    /\ UNCHANGED clientVars

NextRaw ==
    \/ Lifecycle
    \/ \E s \in Sockets : \E to \in UserIds \ {UserId(s)} : Dial(s, to, "video")
    \/ \E s \in Sockets, to \in Sockets : AcceptCall(s, to)
    \/ \E s \in Sockets, to \in Sockets : RejectCall(s, to)
    \/ \E s \in Sockets, to \in Sockets : EndCall(s, to)

SpecRaw == Init /\ [][NextRaw]_vars

----------------------------------------------------------------------------
\* The coordinator with browser controllers behind two of the sockets.

Tabs == {"a1", "b1"}

\* The server handles the next event of a socket whose listeners exist.
Dispatch(s, m) ==
    IF m.ev = "join-voice-channel" THEN OnJoin(s, m.arg, m.uid)
    ELSE IF m.ev = "leave-voice-channel" THEN OnLeave(s, m.arg)
    ELSE IF m.ev = "initiate-call" THEN OnInitiateCall(s, m.arg, m.kind, m.uid)
    ELSE IF m.ev = "accept-call" THEN OnAcceptCall(s, m.arg, m.uid)
    ELSE IF m.ev = "reject-call" THEN OnRejectCall(s, m.arg)
    ELSE IF m.ev = "end-call" THEN OnEndCall(s, m.arg)
    ELSE OnRelay(m.ev, s, m.arg, m.kind)

\* The emitted events are sent, within the room the inboxes have.
Sent ==
    /\ inbox' = Route(inbox, out')
    /\ \A t \in Sockets : inbox'[t] = inbox[t] \/ Len(inbox[t]) < MaxInbox

Handle(s) ==
    /\ Ready(s)
    /\ upq[s] # <<>>
    /\ Dispatch(s, Head(upq[s]))
    /\ upq' = [upq EXCEPT ![s] = Tail(@)]
    /\ Sent
    /\ calls' = Noted(s, Head(upq[s]), out')
    /\ UNCHANGED <<cl, clicks>>

\* An event that arrives while the connection handler still awaits finds no
\* listener and is lost.
Unheard(s) ==
    /\ s \in live
    /\ pc[s] \in {"lookup", "status"}
    /\ upq[s] # <<>>
    /\ upq' = [upq EXCEPT ![s] = Tail(@)]
    /\ out' = <<>>
    /\ last' = Event("unheard", s, NoSocket)
    /\ UNCHANGED <<live, pc, users, rooms, sioRooms, cl, inbox, clicks, calls>>

\* The socket closes and its tab with it.
TabDisconnect(s) ==
    /\ Disconnect(s)
    /\ cl' = [cl EXCEPT ![s] = ClientInit]
    /\ upq' = [upq EXCEPT ![s] = <<>>]
    /\ inbox' = [inbox EXCEPT ![s] = <<>>]
    /\ UNCHANGED <<clicks, calls>>

TabLifecycle ==
    \/ \E s \in Tabs : Connect(s) /\ UNCHANGED <<clientVars, calls>>
    \/ \E s \in Tabs : LookupOk(s) /\ UNCHANGED <<clientVars, calls>>
    \/ \E s \in Tabs : LookupFail(s) /\ UNCHANGED <<clientVars, calls>>
    \/ \E s \in Tabs : StatusOk(s) /\ Sent /\ UNCHANGED <<cl, upq, clicks, calls>>
    \/ \E s \in Tabs : StatusFail(s) /\ UNCHANGED <<clientVars, calls>>
    \/ \E s \in Tabs : TabDisconnect(s)
    \/ \E s \in Tabs : DisconnectCleanup(s) /\ Sent /\ UNCHANGED <<cl, upq, clicks, calls>>
    \/ \E s \in Tabs : Handle(s)
    \/ \E s \in Tabs : Unheard(s)
    \/ \E s \in Tabs : Receive(s)
    \/ \E s, t \in Tabs : SendOffer(s, t)
    \/ \E s, t \in Tabs : SendAnswer(s, t)

\* Controllers that switch text channels and join and leave voice channels.
NextVoice ==
    \/ TabLifecycle
    \/ \E s \in Tabs, ch \in TextChannels : SwitchChannel(s, ch)
    \/ \E s \in Tabs, ch \in VoiceChannels : ClickVoice(s, ch)
    \/ \E s \in Tabs : MediaOkJoin(s)
    \/ \E s \in Tabs : MediaFailJoin(s)
    \/ \E s \in Tabs : CloseCall(s)

SpecVoice == Init /\ [][NextVoice]_vars

\* Controllers that place video calls to each other's user.
NextDial ==
    \/ TabLifecycle
    \/ \E s \in Tabs : \E to \in UserIds \ {UserId(s)} : ClickCall(s, to, "video")
    \/ \E s \in Tabs : MediaOkCall(s)
    \/ \E s \in Tabs : MediaFailCall(s)
    \/ \E s \in Tabs : ClickAccept(s)
    \/ \E s \in Tabs : MediaOkAccept(s)
    \/ \E s \in Tabs : MediaFailAccept(s)
    \/ \E s \in Tabs : ClickReject(s)
    \/ \E s \in Tabs : RingTimeout(s)
    \/ \E s \in Tabs : CloseCall(s)

SpecDial == Init /\ [][NextDial]_vars

\* A client other than script.js behind the socket of s emits reject-call
\* naming socket t; the server's handler takes the event from any socket.
StrayReject(s, t) ==
    Click(s, Result(cl[s], <<Up("reject-call", t, NoSocket, NoSocket)>>))

\* Controllers in voice channels, and sockets that send reject-call to each
\* other without any call.
NextStray ==
    \/ NextVoice
    \/ \E s \in Tabs : \E t \in Tabs \ {s} : StrayReject(s, t)

SpecStray == Init /\ [][NextStray]_vars

\* The token a socket presents in its handshake: the signed one, one that
\* jwt.verify refuses, or none.
Tokens == {"valid", "forged", "none"}
TokenOf(s) ==
    CASE s = "a1" -> "valid"
      [] s = "b1" -> "forged"
      [] OTHER -> "none"

\* A middleware that lets a handshake pass when jwt.verify reports an error.
M_Middleware(token) == IF token = "none" THEN "error" ELSE "next"

\* io.use: next(new Error(...)) without a token or when jwt.verify fails,
\* next() otherwise.
Middleware(token) ==
    IF token = "none" THEN "error"
    ELSE IF token # "valid" THEN "error"
    ELSE "next"

\* next(err): socket.io refuses the connection; no 'connection' event fires.
Refuse(s) ==
    /\ pc[s] = "none"
    /\ pc' = [pc EXCEPT ![s] = "refused"]
    /\ out' = <<>>
    /\ last' = Event("refused", s, NoSocket)
    /\ UNCHANGED <<live, users, rooms, sioRooms>>

\* A socket's handshake.
Handshake(s) ==
    /\ IF Middleware(TokenOf(s)) = "next" THEN Connect(s) ELSE Refuse(s)
    /\ UNCHANGED <<clientVars, calls>>

\* Handshakes with and without a valid token, registry and voice rooms.
NextAuth ==
    \/ \E s \in Sockets : Handshake(s)
    \/ \E s \in Sockets : LookupOk(s) /\ UNCHANGED <<clientVars, calls>>
    \/ \E s \in Sockets : LookupFail(s) /\ UNCHANGED <<clientVars, calls>>
    \/ \E s \in Sockets : StatusOk(s) /\ UNCHANGED <<clientVars, calls>>
    \/ \E s \in Sockets : StatusFail(s) /\ UNCHANGED <<clientVars, calls>>
    \/ \E s \in Sockets : Disconnect(s) /\ UNCHANGED <<clientVars, calls>>
    \/ \E s \in Sockets : DisconnectCleanup(s) /\ UNCHANGED <<clientVars, calls>>
    \/ \E s \in Sockets, r \in VoiceChannels : Join(s, r, UserId(s))
    \/ \E s \in Sockets, r \in VoiceChannels : Leave(s, r)
    \/ \E s \in Sockets, to \in UserIds, ct \in CallTypes :
          InitiateCall(s, to, ct, UserId(s))

SpecAuth == Init /\ [][NextAuth]_vars

\* Registry, one voice room and calls, the identity fields of the payloads
\* being whatever the client wrote.
NextForge ==
    \/ Lifecycle
    \/ \E s \in Sockets, userId \in UserIds : Join(s, "lobby", userId)
    \/ \E s \in Sockets, to \in UserIds, fromId \in UserIds :
          InitiateCall(s, to, "video", fromId)

SpecForge == Init /\ [][NextForge]_vars

\* The events whose handler reads a field of a part the payload lacks:
\* join-voice-channel without a payload (destructuring of undefined),
\* initiate-call and accept-call without `from` (from.id).
Malformed == {"join-voice-channel", "initiate-call", "accept-call"}

\* The handler throws a TypeError that nothing catches: the server process
\* ends, and with it every connection and both maps.
OnMalformed(s, ev) ==
    /\ live' = {}
    /\ pc' = [x \in Sockets |-> IF pc[x] = "none" THEN "none" ELSE "done"]
    /\ users' = <<>>
    /\ rooms' = <<>>
    /\ sioRooms' = [r \in RoomNames |-> {}]
    /\ out' = <<>>
    /\ last' = Event(ev, s, "malformed")

\* A registered socket sends one of these events.
SendMalformed(s, ev) ==
    Ready(s) /\ OnMalformed(s, ev) /\ UNCHANGED <<clientVars, calls>>

\* Registry, one voice room, and malformed events.
NextBad ==
    \/ Lifecycle
    \/ \E s \in Sockets : Join(s, "lobby", UserId(s))
    \/ \E s \in Sockets, ev \in Malformed : SendMalformed(s, ev)

SpecBad == Init /\ [][NextBad]_vars

\* Signalling sent by any client.  The payloads are numbered in the order the
\* clients emit them.
PayloadOrder == <<"p1", "p2", "p3", "p4", "p5">>
Payloads == Range(PayloadOrder)
Rank(p) == CHOOSE i \in DOMAIN PayloadOrder : PayloadOrder[i] = p

\* How many events the clients emit in all.
MaxSignals == 3

\* The socket of s emits offer, answer or ice-candidate naming any target.
EmitSignal(s, kind, to) ==
    /\ clicks < MaxSignals
    /\ Click(s, Result(cl[s], <<Up(kind, to, NoSocket, PayloadOrder[clicks + 1])>>))

\* The socket of s emits join-voice-channel.
EmitJoin(s, channelName) ==
    /\ clicks < MaxSignals
    /\ Click(s, Result(cl[s], <<Up("join-voice-channel", channelName, UserId(s), NoSocket)>>))

\* The emitted events are sent.
Deliver == inbox' = Route(inbox, out')

\* The server handles the next event of s; what it emits queues up at the
\* targets.
Relayed(s) ==
    /\ Ready(s)
    /\ upq[s] # <<>>
    /\ Dispatch(s, Head(upq[s]))
    /\ upq' = [upq EXCEPT ![s] = Tail(@)]
    /\ Deliver
    /\ calls' = Noted(s, Head(upq[s]), out')
    /\ UNCHANGED <<cl, clicks>>

\* The identifiers a signalling message may name: a socket, connected or
\* not, or a voice room.
SignalTargets == Tabs \cup {"voice-lobby"}

NextSignal ==
    \/ \E s \in Tabs : Connect(s) /\ UNCHANGED <<clientVars, calls>>
    \/ \E s \in Tabs : LookupOk(s) /\ UNCHANGED <<clientVars, calls>>
    \/ \E s \in Tabs : LookupFail(s) /\ UNCHANGED <<clientVars, calls>>
    \/ \E s \in Tabs : StatusOk(s) /\ Deliver /\ UNCHANGED <<cl, upq, clicks, calls>>
    \/ \E s \in Tabs : StatusFail(s) /\ UNCHANGED <<clientVars, calls>>
    \/ \E s \in Tabs : TabDisconnect(s)
    \/ \E s \in Tabs : DisconnectCleanup(s) /\ Deliver /\ UNCHANGED <<cl, upq, clicks, calls>>
    \/ \E s \in Tabs : Relayed(s)
    \/ \E s \in Tabs : Unheard(s)
    \/ \E s \in Tabs : Receive(s)
    \/ \E s, t \in Tabs : SendOffer(s, t)
    \/ \E s, t \in Tabs : SendAnswer(s, t)
    \/ \E s \in Tabs, kind \in RelayKinds, to \in SignalTargets : EmitSignal(s, kind, to)
    \/ \E s \in Tabs : EmitJoin(s, "lobby")

SpecSignal == Init /\ [][NextSignal]_vars

\* The socket of s emits an ice-candidate naming socket t.
EmitCandidate(s, t) ==
    Click(s, Result(cl[s], <<Up("ice-candidate", t, NoSocket, PayloadOrder[clicks + 1])>>))

\* Controllers in one voice channel whose links take candidates and fail.
NextIce ==
    \/ TabLifecycle
    \/ \E s \in Tabs : ClickVoice(s, "lobby")
    \/ \E s \in Tabs : MediaOkJoin(s)
    \/ \E s \in Tabs : MediaFailJoin(s)
    \/ \E s \in Tabs : CloseCall(s)
    \/ \E s \in Tabs : \E t \in Tabs \ {s} : EmitCandidate(s, t)
    \/ \E s \in Tabs : \E t \in Tabs \ {s} : IceFailed(s, t)

SpecIce == Init /\ [][NextIce]_vars

\* Controllers in one voice channel.
NextRoom ==
    \/ TabLifecycle
    \/ \E s \in Tabs : ClickVoice(s, "lobby")
    \/ \E s \in Tabs : MediaOkJoin(s)
    \/ \E s \in Tabs : MediaFailJoin(s)
    \/ \E s \in Tabs : CloseCall(s)

\* What runs without the user: every await ends, every event sent is handled
\* by the server and every event emitted reaches its listener.  Clicks and
\* disconnects may or may not come.
Progress ==
    /\ \A s \in Tabs :
          WF_vars((LookupOk(s) \/ LookupFail(s)) /\ UNCHANGED <<clientVars, calls>>)
    /\ \A s \in Tabs :
          WF_vars(\/ StatusOk(s) /\ Sent /\ UNCHANGED <<cl, upq, clicks, calls>>
                  \/ StatusFail(s) /\ UNCHANGED <<clientVars, calls>>)
    /\ \A s \in Tabs :
          WF_vars(DisconnectCleanup(s) /\ Sent /\ UNCHANGED <<cl, upq, clicks, calls>>)
    /\ \A s \in Tabs : WF_vars(Handle(s))
    /\ \A s \in Tabs : WF_vars(Unheard(s))
    /\ \A s \in Tabs : WF_vars(Receive(s))
    /\ \A s \in Tabs : WF_vars(MediaOkJoin(s) \/ MediaFailJoin(s))
    /\ \A s \in Tabs, t \in Tabs : WF_vars(SendOffer(s, t))
    /\ \A s \in Tabs, t \in Tabs : WF_vars(SendAnswer(s, t))

SpecRoom == Init /\ [][NextRoom]_vars /\ Progress

----------------------------------------------------------------------------
\* Properties of the registry and of the room table

\* Every connection handler and disconnect handler has run to completion.
Quiescent == \A s \in Sockets : pc[s] \in {"none", "ready", "done"}

\* How many events `ev` from `from` a batch of emitted events holds for `to`.
CountMsg(batch, to, ev, from) ==
    Cardinality({i \in DOMAIN batch :
                    batch[i].to = to /\ batch[i].ev = ev /\ batch[i].from = from})

\* The socketId fields of a list of user records.
Handles(list) == [i \in DOMAIN list |-> list[i].socketId]

\* The existing-voice-users lists a batch carries for a socket.
ExistingLists(batch, s) ==
    {batch[i].list : i \in {j \in DOMAIN batch :
                               batch[j].to = s /\ batch[j].ev = "existing-voice-users"}}

JoinStep(s, r) ==
    last'.ev = "join-voice-channel" /\ last'.sock = s /\ last'.arg = r
LeaveStep(s, r) ==
    last'.ev = "leave-voice-channel" /\ last'.sock = s /\ last'.arg = r

\* C1: once every handler has run to completion, the keys of the users
\* registry are exactly the connected sockets.
C1_RegistryMatchesLive == Quiescent => UserKeys = live

\* C2: every member of every room's member set is a key of the registry.
C2_RoomMembersRegistered ==
    \A r \in DOMAIN rooms : Range(rooms[r]) \subseteq UserKeys

\* C3: the step in which a member of two rooms disconnects removes it from the
\* registry and from every room, and every remaining member of each of its
\* rooms is sent exactly one user-left-voice carrying its handle.
C3_DisconnectOneStep ==
    [][\A s \in Sockets :
          (s \in live /\ s \notin live' /\ Cardinality(RoomsOf(s)) >= 2)
          => /\ s \notin UserKeys'
             /\ \A r \in DOMAIN rooms' : s \notin Range(rooms'[r])
             /\ \A r \in RoomsOf(s) : \A m \in Range(rooms[r]) \ {s} :
                   CountMsg(out', m, "user-left-voice", s) = 1]_vars

\* C5: a join leaves exactly one occurrence of the joiner in the room's member
\* set (a join by a member changes nothing in it), and the existing-voice-users
\* list sent back does not carry the joiner's own handle.
C5_JoinTwice ==
    [][\A s \in Sockets, r \in RoomNames :
          JoinStep(s, r)
          => /\ Cardinality({i \in DOMAIN rooms'[r] : rooms'[r][i] = s}) = 1
             /\ (s \in Range(Members(r)) => rooms'[r] = rooms[r])
             /\ ExistingLists(out', s) # {}
             /\ \A l \in ExistingLists(out', s) : s \notin Range(Handles(l))]_vars

\* A socket that was a member of the room has just joined it again.
C5_Witness ==
    /\ last.ev = "join-voice-channel"
    /\ last.member
    /\ last.sock \in Range(Members(last.arg))
    /\ Len(Members(last.arg)) >= 2

\* C6: on a join the list sent to the joiner is the other members of the room
\* in the order they joined, and exactly those members are sent one
\* user-joined-voice carrying the joiner.
C6_JoinNotifies ==
    [][\A s \in Sockets, r \in RoomNames :
          JoinStep(s, r)
          => LET others == SelectSeq(rooms'[r], LAMBDA id : id # s)
             IN  /\ \A l \in ExistingLists(out', s) : Handles(l) = others
                 /\ \A m \in Sockets :
                       CountMsg(out', m, "user-joined-voice", s)
                         = IF m \in Range(others) THEN 1 ELSE 0]_vars

\* C7 as claimed: after a leave no room of the table has an empty member set.
C7_NoEmptyRoom ==
    last.ev = "leave-voice-channel" => \A r \in DOMAIN rooms : rooms[r] # <<>>

\* C7: a leave removes the socket from the named room's member set, keeps the
\* other members in their order, and keeps every entry of the room table, an
\* emptied one included.
C7_LeaveKeepsEntry ==
    [][\A s \in Sockets, r \in RoomNames :
          LeaveStep(s, r)
          => /\ DOMAIN rooms' = DOMAIN rooms
             /\ \A q \in DOMAIN rooms :
                   rooms'[q] = IF q = r
                               THEN SelectSeq(rooms[q], LAMBDA id : id # s)
                               ELSE rooms[q]]_vars

\* The last member of a room has just left it, and the entry is still there.
C7_Witness ==
    /\ last.ev = "leave-voice-channel"
    /\ last.member
    /\ last.arg \in DOMAIN rooms
    /\ rooms[last.arg] = <<>>

\* C10: an initiate-call for an identity with no entry in the registry sends
\* call-rejected to the caller and nothing else, and changes no table.  An
\* identity is registered as long as `users` holds an entry for it, the entry
\* of a socket that has closed included.
C10_CalleeOffline ==
    [][\A s \in Sockets, to \in UserIds :
          (/\ last'.ev = "initiate-call" /\ last'.sock = s /\ last'.arg = to
           /\ \A i \in DOMAIN users : users[i].id # to)
          => /\ out' = <<Msg(s, "call-rejected", NoSocket, NoSocket, NoSocket, <<>>)>>
             /\ UNCHANGED <<users, rooms, sioRooms, live>>]_vars

\* A call to an offline identity was just handled while others were connected
\* and a room had members.
C10_Witness ==
    /\ last.ev = "initiate-call"
    /\ \A i \in DOMAIN users : users[i].id # last.arg
    /\ Cardinality(live) >= 2
    /\ \E r \in DOMAIN rooms : rooms[r] # <<>>
    /\ out = <<Msg(last.sock, "call-rejected", NoSocket, NoSocket, NoSocket, <<>>)>>

----------------------------------------------------------------------------
\* Properties of the controllers together with the coordinator

\* Controller t is in an accepted call with socket s: it placed the call and
\* holds the link that call-accepted from s made, or it accepted s's call and
\* s's offer, sent on call-accepted, has reached its link.
InCallWith(t, s) ==
    /\ cl[t].inCall
    /\ s \in DOMAIN cl[t].peerConnections
    /\ \/ cl[t].currentCallDetails = "initiator"
       \/ /\ cl[t].currentCallDetails = s
          /\ cl[t].peerConnections[s] \in {"creating-answer", "stable"}

\* C4: the step in which the disconnect handler of a party of an accepted
\* call cleans up sends call-ended, carrying that party's handle, to the other
\* party.
C4_DisconnectEndsCall ==
    [][\A s \in Sockets, t \in Sockets :
          (/\ pc[s] = "closing" /\ pc'[s] = "done"
           /\ t \in live /\ InCallWith(t, s))
          => CountMsg(out', t, "call-ended", s) >= 1]_vars

\* C8: a socket is in the member set of at most one room.
C8_AtMostOneRoom == \A s \in Sockets : Cardinality(RoomsOf(s)) <= 1

\* C9: when the server handles the leave a controller's forced
\* leaveVoiceChannel emitted, the socket is in no room's member set any more
\* and every other member of a room it was in is sent user-left-voice for it.
C9_ControllerLeaveLeaves ==
    [][\A s \in Sockets :
          (last'.ev = "leave-voice-channel" /\ last'.sock = s)
          => \A r \in RoomsOf(s) :
                /\ s \notin Range(rooms'[r])
                /\ \A m \in Range(rooms[r]) \ {s} :
                      CountMsg(out', m, "user-left-voice", s) >= 1]_vars

----------------------------------------------------------------------------
\* Properties of the call signalling

\* C11: an initiate-call for an identity that has a connected socket in the
\* registry sends incoming-call to a socket of that identity, sends it to no
\* socket of another identity, and sends the caller no call-rejected.
C11_CalleeOnline ==
    [][\A s \in Sockets, to \in UserIds :
          (/\ last'.ev = "initiate-call" /\ last'.sock = s /\ last'.arg = to
           /\ \E i \in DOMAIN users : users[i].id = to /\ users[i].socketId \in live)
          => /\ \E t \in Sockets :
                   UserId(t) = to /\ CountMsg(out', t, "incoming-call", s) >= 1
             /\ \A i \in DOMAIN out' :
                   out'[i].ev = "incoming-call" => UserId(out'[i].to) = to
             /\ \A i \in DOMAIN out' : out'[i].ev # "call-rejected"]_vars

\* The server's step handles event `ev` of socket s naming target t.
CallStep(ev, s, t) == last'.ev = ev /\ last'.sock = s /\ last'.arg = t

\* The events that tell a party the new status of a call.
StatusEvents == {"call-accepted", "call-rejected", "call-ended"}

\* C12: an accept-call makes the server send call-accepted to the named socket
\* only when that socket's call to the accepting socket is ringing.
C12_AcceptOnlyRinging ==
    [][\A s \in Sockets, t \in Sockets :
          (CallStep("accept-call", s, t) /\ CountMsg(out', t, "call-accepted", s) >= 1)
          => calls[t][s] \in {"ringing", "many"}]_vars

\* C13: an accept-call for a call that is already accepted sends the caller no
\* further call-accepted.
C13_AcceptedOnce ==
    [][\A s \in Sockets, t \in Sockets :
          (CallStep("accept-call", s, t) /\ calls[t][s] = "accepted")
          => CountMsg(out', t, "call-accepted", s) = 0]_vars

\* C15: an accept-call for a call the callee has rejected sends the caller no
\* call-accepted.
C15_NoAcceptAfterReject ==
    [][\A s \in Sockets, t \in Sockets :
          (CallStep("accept-call", s, t) /\ calls[t][s] = "rejected")
          => CountMsg(out', t, "call-accepted", s) = 0]_vars

\* C19: the status events an accept-call, reject-call or end-call produces go
\* to the other party of a call of the requesting socket, never to the
\* requesting socket itself and never to a socket it has no call with.
C19_StatusToCounterpart ==
    [][\A s \in Sockets :
          (last'.ev \in {"accept-call", "reject-call", "end-call"} /\ last'.sock = s)
          => \A i \in DOMAIN out' :
                out'[i].ev \in StatusEvents
                => /\ out'[i].to # s
                   /\ calls[s][out'[i].to] # "none" \/ calls[out'[i].to][s] # "none"]_vars

\* The statuses a call attempt does not leave.  A ring timeout is the callee's
\* reject-call, so a timed-out attempt is a rejected one.
Terminal == {"rejected", "ended"}

\* C14: once the call attempts between two sockets are over, no accept-call,
\* reject-call or end-call of one naming the other makes the server send a
\* status event to either of them.
C14_TerminalStays ==
    [][\A s \in Sockets, t \in Sockets :
          (/\ last'.ev \in {"accept-call", "reject-call", "end-call"}
           /\ last'.sock = s /\ last'.arg = t /\ s # t
           /\ {calls[s][t], calls[t][s]} \subseteq Terminal \cup {"none"}
           /\ {calls[s][t], calls[t][s]} # {"none"})
          => \A i \in DOMAIN out' :
                out'[i].ev \in StatusEvents => out'[i].to \notin {s, t}]_vars

\* The oldest ring timer of controller s fires in this step.
TimerFires(s) ==
    /\ s \in live'
    /\ cl[s].timers # <<>>
    /\ cl'[s].timers = Tail(cl[s].timers)

\* C16: a ring timer that fires while its own call is on the dialog and
\* unanswered hides the dialog and emits one reject-call naming the caller; a
\* timer that fires after the user accepted or rejected its call emits nothing
\* and changes nothing.
C16_RingTimeout ==
    [][\A s \in Sockets :
          TimerFires(s)
          => LET timer == Head(cl[s].timers)
             IN  /\ (~timer.answered /\ Len(cl[s].timers) = 1 /\ cl[s].incoming # NoCaller)
                    => /\ cl'[s].incoming = NoCaller
                       /\ upq'[s] = Append(upq[s],
                                           Up("reject-call", timer.caller, NoSocket, NoSocket))
                 /\ timer.answered
                    => /\ upq'[s] = upq[s]
                       /\ cl'[s] = [cl[s] EXCEPT !.timers = Tail(@)]]_vars

\* C17: when the timer of a call the user has answered fires while the dialog
\* shows a later call, the dialog stays and no reject-call is emitted.
C17_StaleTimer ==
    [][\A s \in Sockets :
          (/\ TimerFires(s)
           /\ Head(cl[s].timers).answered
           /\ Len(cl[s].timers) >= 2
           /\ cl[s].incoming # NoCaller)
          => /\ cl'[s].incoming = cl[s].incoming
             /\ \A i \in DOMAIN upq'[s] : upq'[s][i].ev # "reject-call"]_vars

\* The user of controller s clicks #closeCallBtn in this step while in a call:
\* the one click handler that resets inCall.
HangsUp(s) == clicks' # clicks /\ cl[s].inCall /\ ~cl'[s].inCall

\* C18: when a party of an accepted call hangs up, its controller emits
\* end-call naming the other party, so that the other party is sent call-ended.
C18_HangUpEndsCall ==
    [][\A s \in Sockets, t \in Sockets :
          (/\ s # t /\ {s, t} \subseteq live
           /\ "accepted" \in {calls[s][t], calls[t][s]}
           /\ HangsUp(s))
          => \E i \in DOMAIN upq'[s] :
                upq'[s][i].ev = "end-call" /\ upq'[s][i].arg = t]_vars

\* The listener of controller t handles the next event sent to it.
Hears(t) == t \in live' /\ inbox[t] # <<>> /\ inbox'[t] = Tail(inbox[t])

\* C20: a status event that reaches a controller sitting in a voice room from
\* a socket it has no call with changes neither its in-call state nor its
\* media nor its links.
C20_StrayEventDropped ==
    [][\A t \in Sockets :
          (/\ Hears(t)
           /\ RoomsOf(t) # {}
           /\ Head(inbox[t]).ev \in StatusEvents
           /\ Head(inbox[t]).from \in Sockets
           /\ calls[Head(inbox[t]).from][t] = "none"
           /\ calls[t][Head(inbox[t]).from] = "none")
          => /\ cl'[t].inCall = cl[t].inCall
             /\ cl'[t].localStream = cl[t].localStream
             /\ cl'[t].peerConnections = cl[t].peerConnections]_vars

----------------------------------------------------------------------------
\* Properties of the signalling relay

\* The server handles the offer, answer or ice-candidate at the head of the
\* events of s.
RelayStep(s) ==
    /\ Ready(s)
    /\ upq[s] # <<>>
    /\ Head(upq[s]).ev \in RelayKinds
    /\ upq'[s] = Tail(upq[s])
    /\ last'.ev = Head(upq[s]).ev

\* C21: relaying an offer, answer or ice-candidate whose target is not a key
\* of the registry reports a failure to the sender, delivers nothing to any
\* other connection and changes no table.
C21_UnknownTarget ==
    [][\A s \in Tabs :
          RelayStep(s) /\ s \in UserKeys /\ Head(upq[s]).arg \notin UserKeys
          => /\ \E i \in DOMAIN out' : out'[i].to = s
             /\ \A i \in DOMAIN out' : out'[i].to = s
             /\ users' = users /\ rooms' = rooms /\ sioRooms' = sioRooms]_vars

\* C22: a relayed offer, answer or ice-candidate goes to the one connection
\* whose socket id is the target string and to no other, whatever the string
\* is, with the sender's socket id as `from` and the payload as it came.
C22_ExactlyTarget ==
    [][\A s \in Tabs :
          RelayStep(s)
          => LET m == Head(upq[s])
             IN  /\ Len(out') <= 1
                 /\ \A i \in DOMAIN out' :
                        /\ out'[i].to = m.arg
                        /\ out'[i].ev = m.ev
                        /\ out'[i].from = s
                        /\ out'[i].kind = m.kind]_vars

\* The events of a batch that a listener of t hears.
Heard(batch, t) == SelectSeq(batch, LAMBDA m : m.to = t /\ m.ev \in Listened)

\* The signalling messages of one sender stand in a queue in the order that
\* sender emitted them.
InOrder(q) ==
    \A i, j \in DOMAIN q :
        (/\ i < j
         /\ q[i].from = q[j].from
         /\ q[i].ev \in RelayKinds /\ q[j].ev \in RelayKinds
         /\ q[i].kind \in Payloads /\ q[j].kind \in Payloads)
        => Rank(q[i].kind) < Rank(q[j].kind)

----------------------------------------------------------------------------
\* Properties of the peer links

\* The listener of t handles an event that names r, to which t has a link.
LinkedAgain(t, r) ==
    /\ Hears(t)
    /\ r \in Requested(Head(inbox[t]))
    /\ r \in DOMAIN cl[t].peerConnections

\* C24: a controller holds at most one link per remote socket:
\* createPeerConnection for a socket that has a link creates nothing, starts
\* no offer and leaves the map of links as it is.  When user-joined-voice,
\* existing-voice-users or call-accepted names a linked socket, that link
\* stays in its state and nothing is emitted; an offer from a linked socket
\* is applied to that link and adds none.
C24_OneLinkPerRemote ==
    [][\A t \in Tabs, r \in Sockets :
          LinkedAgain(t, r)
          => /\ upq'[t] = upq[t]
             /\ IF Head(inbox[t]).ev = "offer"
                THEN DOMAIN cl'[t].peerConnections = DOMAIN cl[t].peerConnections
                ELSE cl'[t].peerConnections[r] = cl[t].peerConnections[r]]_vars

\* A controller has handled a user-joined-voice for a socket it had a link to
\* whose offer was out already.
C24_Witness ==
    /\ last.ev = "controller" /\ last.member /\ last.arg = "user-joined-voice"
    /\ \E r \in DOMAIN cl[last.sock].peerConnections :
          cl[last.sock].peerConnections[r] \in {"have-local-offer", "stable"}

\* The states of a link whose side created the offer, and of one that waits
\* for or answers the other side's offer.
OfferSide == {"creating-offer", "have-local-offer"}
AnswerSide == {"new", "creating-answer"}

\* C25: of two controllers that hold a link to each other, one is the
\* initiator and sends the offer and the other is the responder: never both
\* create an offer, never both wait for one.
C25_OneInitiator ==
    \A s \in Tabs, t \in Tabs :
        (/\ s # t /\ {s, t} \subseteq live
         /\ t \in DOMAIN cl[s].peerConnections
         /\ s \in DOMAIN cl[t].peerConnections)
        => /\ ~({cl[s].peerConnections[t], cl[t].peerConnections[s]} \subseteq OfferSide)
           /\ ~({cl[s].peerConnections[t], cl[t].peerConnections[s]} \subseteq AnswerSide)

\* C26: an ICE candidate that reaches a controller whose link to the sender
\* has no remote description yet, and none being applied, is kept for that
\* link until the description is set: handling it does not leave the
\* controller as it was.
C26_CandidateKept ==
    [][\A t \in Tabs :
          (/\ Hears(t)
           /\ Head(inbox[t]).ev = "ice-candidate"
           /\ Head(inbox[t]).from \in DOMAIN cl[t].peerConnections
           /\ cl[t].peerConnections[Head(inbox[t]).from] \notin RemoteDescribed)
          => cl'[t] # cl[t]]_vars

\* C27: a link whose ICE connection fails is restarted once; it is not
\* restarted a second time.
C27_RestartOnce ==
    \A s \in Tabs : \A t \in DOMAIN cl[s].peerConnections : Restarts(cl[s], t) <= 1

----------------------------------------------------------------------------
\* Properties of the local media

\* No getUserMedia of controller s is awaited.
NoneAwaited(s) ==
    /\ cl[s].pendJoin = "none"
    /\ cl[s].pendCall = NoCall
    /\ cl[s].pendAccept = NoCaller

\* C28: a controller that is neither in a call nor in a voice room, and
\* awaits no media, holds no local stream.
C28_MediaReleased ==
    \A s \in Tabs : (~cl[s].inCall /\ NoneAwaited(s)) => ~cl[s].localStream

\* initializeMedia of the join of s ends, resolved or rejected.
JoinMediaEnds(s) ==
    /\ s \in live'
    /\ cl[s].pendJoin # "none"
    /\ cl'[s].pendJoin = "none"

\* C29: when the media of a join arrive after the user left the call, the
\* controller sends no join, keeps no stream and stays out of the call.
C29_CancelledJoin ==
    [][\A s \in Tabs :
          (JoinMediaEnds(s) /\ ~cl[s].inCall)
          => /\ upq'[s] = upq[s]
             /\ ~cl'[s].localStream
             /\ ~cl'[s].inCall]_vars

----------------------------------------------------------------------------
\* Properties of the handlers' input

\* C30: an event that lacks a required part never ends the server: the step
\* that handles it leaves the connections, the registry and the rooms as they
\* were.
C30_MalformedHarmless ==
    [][last'.arg = "malformed"
          => /\ live' = live
             /\ pc' = pc
             /\ users' = users
             /\ rooms' = rooms
             /\ sioRooms' = sioRooms]_vars

----------------------------------------------------------------------------
\* Properties of the handshake

\* C31: a socket that presents no token or one that does not verify is
\* refused before the connection handler runs: it is never connected, never a
\* key of the registry, never in a room, and no event of it is handled.
C31_NoTokenNoEntry ==
    \A s \in Sockets :
        TokenOf(s) # "valid"
        => /\ s \notin live
           /\ pc[s] \in {"none", "refused"}
           /\ s \notin UserKeys
           /\ \A r \in DOMAIN rooms : s \notin Range(rooms[r])
           /\ \A r \in RoomNames : s \notin sioRooms[r]
           /\ last.sock = s => last.ev = "refused"

\* Both sockets without a valid token were refused while the socket with one
\* sits in a room.
C31_Witness ==
    /\ \A s \in Sockets : TokenOf(s) # "valid" => pc[s] = "refused"
    /\ \E s \in Sockets : Ready(s) /\ s \in UserKeys /\ RoomsOf(s) # {}

----------------------------------------------------------------------------
\* Properties of the presence broadcast

\* A batch holds a user-list-update that carries the registry `us`.
Broadcast(batch, us) ==
    \E i \in DOMAIN batch :
        batch[i].ev = "user-list-update" /\ batch[i].list = us

\* C32: the handler that changed the registry broadcasts the registry as it
\* is after the change: the connection handler that added the entry of s does
\* so when its status update ends, resolved or rejected, and the disconnect
\* handler does so in the step that deletes the entry.
C32_ChangeBroadcast ==
    [][\A s \in Sockets :
          /\ (pc[s] = "status" /\ pc'[s] # "status" /\ s \in live)
                => Broadcast(out', users')
          /\ (s \in UserKeys /\ s \notin {users'[i].socketId : i \in DOMAIN users'})
                => Broadcast(out', users')]_vars

----------------------------------------------------------------------------
\* Progress of the negotiation

\* s and t are members of one room.
Together(s, t) == \E r \in DOMAIN rooms : {s, t} \subseteq Range(rooms[r])

\* The server has just handled the join of s into a room that t is a member
\* of.
JoinedTo(s, t) ==
    /\ last.ev = "join-voice-channel" /\ last.sock = s
    /\ {s, t} \subseteq live
    /\ Together(s, t)

\* s and t hold a link to each other whose offer and answer went through.
Negotiated(s, t) ==
    /\ t \in DOMAIN cl[s].peerConnections /\ cl[s].peerConnections[t] = "stable"
    /\ s \in DOMAIN cl[t].peerConnections /\ cl[t].peerConnections[s] = "stable"

\* C33: once a socket has joined a room another socket is a member of, and
\* both stay connected and in that room, each controller comes to hold a link
\* to the other whose offer/answer exchange is complete.
C33_LinkCompletes ==
    \A s \in Tabs, t \in Tabs :
        (s # t /\ JoinedTo(s, t))
        ~> (Negotiated(s, t) \/ ~({s, t} \subseteq live) \/ ~Together(s, t))

----------------------------------------------------------------------------
\* Properties of the identities the server passes on

\* C34: the caller id of an incoming-call and the user id of a
\* user-joined-voice are the identity of the socket that sent the request,
\* whatever the payload named.
C34_AuthenticIdentity ==
    \A i \in DOMAIN out :
        out[i].ev \in {"incoming-call", "user-joined-voice"}
        => out[i].uid = UserId(out[i].from)

----------------------------------------------------------------------------
\* Properties of the controller's call state

\* C35: a controller that is not in a call holds no link and no local
\* stream.
C35_IdleHoldsNothing ==
    \A s \in Tabs :
        ~cl[s].inCall => /\ DOMAIN cl[s].peerConnections = {}
                         /\ ~cl[s].localStream

\* C36: when a caller hangs up while its call rings, its controller emits
\* end-call naming the callee, and a call-accepted it handles when it is in no
\* call creates no link.
C36_HangUpWhileRinging ==
    [][\A s \in Tabs, t \in Tabs :
          /\ (/\ s # t /\ {s, t} \subseteq live
              /\ calls[s][t] = "ringing"
              /\ HangsUp(s))
             => \E i \in DOMAIN upq'[s] :
                   upq'[s][i].ev = "end-call" /\ upq'[s][i].arg = t
          /\ (/\ Hears(s)
              /\ Head(inbox[s]).ev = "call-accepted"
              /\ Head(inbox[s]).from = t
              /\ ~cl[s].inCall)
             => cl'[s].peerConnections = cl[s].peerConnections]_vars

\* C37: a controller never replaces a held local stream without stopping its
\* tracks: at most one live local stream exists.
C37_OneLiveStream == \A s \in Tabs : ~cl[s].orphan

\* C38: user-left-voice carrying a handle goes out for a room only when the
\* handle was in that room's member set just before; a leave for a room the
\* sender is not a member of emits nothing.
C38_LeftOnlyByMembers ==
    last.ev = "leave-voice-channel" /\ ~last.member
        => \A i \in DOMAIN out : ~(out[i].ev = "user-left-voice" /\ out[i].from = last.sock)

----------------------------------------------------------------------------
\* Properties of signalling events from a socket the controller has no link to

\* The listener of s handles an event of one of `kinds` from a socket it has
\* no link to.
FromUnlinked(s, kinds) ==
    /\ Hears(s)
    /\ Head(inbox[s]).ev \in kinds
    /\ Head(inbox[s]).from \notin DOMAIN cl[s].peerConnections

\* An answer or candidate from an unlinked socket changes no link and sends
\* nothing; an offer from an unlinked socket adds one responder link for that
\* socket, whose answer is being made, and touches no other link.
UnlinkedEffect(s) ==
    /\ FromUnlinked(s, {"answer", "ice-candidate"})
          => /\ cl'[s].peerConnections = cl[s].peerConnections
             /\ upq'[s] = upq[s]
    /\ FromUnlinked(s, {"offer"})
          => LET t == Head(inbox[s]).from
             IN  /\ DOMAIN cl'[s].peerConnections = DOMAIN cl[s].peerConnections \cup {t}
                 /\ cl'[s].peerConnections[t] = "creating-answer"
                 /\ \A u \in DOMAIN cl[s].peerConnections :
                       cl'[s].peerConnections[u] = cl[s].peerConnections[u]

\* The link of s to t has the answer to an offer pending.
Answering(c, t) ==
    t \in DOMAIN c.peerConnections /\ c.peerConnections[t] = "creating-answer"

\* The step emits the one answer of s addressed to t.
OneAnswer(s, t) == upq'[s] = Append(upq[s], Up("answer", t, NoSocket, NoSocket))

\* The step ends the pending answer of the link of a controller that stays
\* connected.
AnswerEnds(s, t) == s \in live' /\ Answering(cl[s], t) /\ ~Answering(cl'[s], t)

\* C39 as stated: an answer or candidate from an unlinked socket changes no
\* link and sends nothing, and an offer from an unlinked socket creates one
\* responder link whose pending answer always ends in one answer sent to that
\* socket.
C39_UnlinkedAlwaysAnswered ==
    [][\A s \in Tabs :
          /\ UnlinkedEffect(s)
          /\ \A t \in Tabs : AnswerEnds(s, t) => OneAnswer(s, t)]_vars

\* C39: an answer or candidate from an unlinked socket changes no link and
\* sends nothing; an offer from an unlinked socket creates one responder link
\* for that socket, and its pending answer ends either in exactly one answer
\* addressed to that socket or in the link being closed before the answer was
\* made.
C39_UnlinkedSignal ==
    [][\A s \in Tabs :
          /\ UnlinkedEffect(s)
          /\ \A t \in Tabs :
                AnswerEnds(s, t)
                   => \/ t \notin DOMAIN cl'[s].peerConnections
                      \/ OneAnswer(s, t) /\ cl'[s].peerConnections[t] = "stable"]_vars

\* A controller that never joined a room has answered the offer of a socket.
C39_Witness ==
    \E s \in Tabs, t \in Tabs :
        /\ s \in live /\ s \notin sioRooms["lobby"]
        /\ t \in DOMAIN cl[s].peerConnections
        /\ cl[s].peerConnections[t] = "stable"
        /\ upq[s] = <<Up("answer", t, NoSocket, NoSocket)>>

====
